---- MODULE Spec2Model ----
(***************************************************************************)
(* A model of rusty-mandelbrot (src/main.rs): calculate_mandelbrot, the    *)
(* escape-time loop num_of_mandelbrot_iters_before_escape and              *)
(* render_mandelbrot, as the sequential program main runs them.            *)
(*                                                                         *)
(* The program computes in f64.  The model computes in IEEE-754 binary64   *)
(* too: a value is a sign, a 53-bit significand and an exponent, every     *)
(* operation is rounded to nearest, ties to even, with subnormals, signed  *)
(* zeros, infinities and NaN.  Significands do not fit the integers of the *)
(* model checker, so they are kept as little-endian sequences of 14-bit    *)
(* limbs.                                                                  *)
(***************************************************************************)
EXTENDS Integers, Sequences, FiniteSets, TLC

(***************************************************************************)
(* Natural numbers of any size: little-endian limbs, no leading zero limb. *)
(***************************************************************************)
LimbBits == 14
Base == 2 ^ LimbBits

Max(a, b) == IF a >= b THEN a ELSE b
Min(a, b) == IF a <= b THEN a ELSE b

RECURSIVE BTrim(_)
BTrim(a) ==
  IF a = <<>> THEN a
  ELSE IF a[Len(a)] = 0 THEN BTrim(SubSeq(a, 1, Len(a) - 1)) ELSE a

RECURSIVE BAddC(_, _, _)
BAddC(a, b, carry) ==
  IF a = <<>> /\ b = <<>> THEN (IF carry = 0 THEN <<>> ELSE <<carry>>)
  ELSE LET x == IF a = <<>> THEN 0 ELSE Head(a)
           y == IF b = <<>> THEN 0 ELSE Head(b)
           s == x + y + carry
       IN  <<s % Base>> \o BAddC(IF a = <<>> THEN a ELSE Tail(a),
                                 IF b = <<>> THEN b ELSE Tail(b), s \div Base)

BAdd(a, b) == BAddC(a, b, 0)

\* a - b for a >= b, limb by limb with a borrow.
RECURSIVE BSubC(_, _, _)
BSubC(a, b, borrow) ==
  IF a = <<>> THEN <<>>
  ELSE LET y == IF b = <<>> THEN 0 ELSE Head(b)
           d == Head(a) - y - borrow
       IN  <<IF d < 0 THEN d + Base ELSE d>>
             \o BSubC(Tail(a), IF b = <<>> THEN b ELSE Tail(b),
                      IF d < 0 THEN 1 ELSE 0)

BSub(a, b) == BTrim(BSubC(a, b, 0))

\* -1, 0, 1 as a < b, a = b, a > b.
RECURSIVE BCmpAt(_, _, _)
BCmpAt(a, b, i) ==
  IF i = 0 THEN 0
  ELSE IF a[i] < b[i] THEN -1
  ELSE IF a[i] > b[i] THEN 1
  ELSE BCmpAt(a, b, i - 1)

BCmp(a, b) ==
  IF Len(a) < Len(b) THEN -1
  ELSE IF Len(a) > Len(b) THEN 1
  ELSE BCmpAt(a, b, Len(a))

RECURSIVE BMulLimb(_, _, _)
BMulLimb(a, d, carry) ==
  IF a = <<>> THEN (IF carry = 0 THEN <<>> ELSE <<carry>>)
  ELSE LET p == Head(a) * d + carry
       IN  <<p % Base>> \o BMulLimb(Tail(a), d, p \div Base)

RECURSIVE BMul(_, _)
BMul(a, b) ==
  IF a = <<>> \/ b = <<>> THEN <<>>
  ELSE BAdd(BMulLimb(b, Head(a), 0),
            LET rest == BMul(Tail(a), b)
            IN  IF rest = <<>> THEN rest ELSE <<0>> \o rest)

RECURSIVE BitLenLimb(_)
BitLenLimb(d) == IF d = 0 THEN 0 ELSE 1 + BitLenLimb(d \div 2)

BitLen(a) ==
  IF a = <<>> THEN 0 ELSE LimbBits * (Len(a) - 1) + BitLenLimb(a[Len(a)])

\* a * 2^k
BShl(a, k) ==
  IF a = <<>> THEN a
  ELSE [i \in 1..(k \div LimbBits) |-> 0] \o BMulLimb(a, 2 ^ (k % LimbBits), 0)

\* floor(a / 2^k)
BShr(a, k) ==
  LET q == k \div LimbBits
      r == k % LimbBits
  IN  IF q >= Len(a) THEN <<>>
      ELSE LET t == SubSeq(a, q + 1, Len(a))
               n == Len(t)
           IN  BTrim([i \in 1..n |->
                        (t[i] \div (2 ^ r))
                        + (IF i < n THEN (t[i + 1] % (2 ^ r)) * (2 ^ (LimbBits - r))
                           ELSE 0)])

\* <<floor(a / d), a mod d>> for one limb d > 0, from the top limb i of a downwards;
\* r is the remainder so far.
RECURSIVE BDivLimbAt(_, _, _, _)
BDivLimbAt(a, d, i, r) ==
  IF i = 0 THEN <<<<>>, r>>
  ELSE LET cur == r * Base + a[i]
           rest == BDivLimbAt(a, d, i - 1, cur % d)
       IN  <<rest[1] \o <<cur \div d>>, rest[2]>>

BDivLimb(a, d) ==
  LET qr == BDivLimbAt(a, d, Len(a), 0)
  IN  <<BTrim(qr[1]), qr[2]>>

RECURSIVE BFromNat(_)
BFromNat(n) == IF n = 0 THEN <<>> ELSE <<n % Base>> \o BFromNat(n \div Base)

(***************************************************************************)
(* f64: IEEE-754 binary64.  A finite value is (-1)^sign * man * 2^exp with *)
(* man < 2^53, exp in MinExp..MaxExp, and man >= 2^52 unless exp = MinExp  *)
(* (a subnormal or a zero), so that equal records are equal bit patterns.  *)
(* There is one NaN: the program only compares and adds.                   *)
(***************************************************************************)
Precision == 53
MinExp == -1074
MaxExp == 971

NaN == [kind |-> "nan", sign |-> 0, man |-> <<>>, exp |-> 0]
Inf(s) == [kind |-> "inf", sign |-> s, man |-> <<>>, exp |-> 0]
Zero(s) == [kind |-> "fin", sign |-> s, man |-> <<>>, exp |-> MinExp]
Fin(s, m, e) == [kind |-> "fin", sign |-> s, man |-> m, exp |-> e]

IsNaN(x) == x.kind = "nan"
IsInf(x) == x.kind = "inf"
IsFinite(x) == x.kind = "fin"
IsZero(x) == x.kind = "fin" /\ x.man = <<>>

TwoPow(k) == BShl(<<1>>, k)

\* A significand m <= 2^Precision at exponent q >= MinExp, as a value.
Pack(s, m, q) ==
  IF m = <<>> THEN Zero(s)
  ELSE IF BitLen(m) > Precision
       THEN (IF q + 1 > MaxExp THEN Inf(s) ELSE Fin(s, TwoPow(Precision - 1), q + 1))
       ELSE (IF q > MaxExp THEN Inf(s) ELSE Fin(s, m, q))

\* Whether n * 2^e needs rounding to become an f64 (an overflow does).
Inexact(n, e) ==
  IF n = <<>> THEN FALSE
  ELSE LET q == Max(e + BitLen(n) - Precision, MinExp)
           sh == q - e
       IN  \/ q > MaxExp
           \/ sh > 0 /\ BShl(BShr(n, sh), sh) # n

\* (-1)^s * n * 2^e rounded to nearest, ties to even.
Round(s, n, e) ==
  IF n = <<>> THEN Zero(s)
  ELSE LET q == Max(e + BitLen(n) - Precision, MinExp)
           sh == q - e
       IN  IF sh <= 0 THEN Pack(s, BShl(n, 0 - sh), q)
           ELSE LET fl == BShr(n, sh)
                    rem == BSub(n, BShl(fl, sh))
                    cmp == BCmp(rem, TwoPow(sh - 1))
                    odd == fl # <<>> /\ fl[1] % 2 = 1
                    up == cmp = 1 \/ (cmp = 0 /\ odd)
                IN  Pack(s, IF up THEN BAdd(fl, <<1>>) ELSE fl, q)

FNeg(x) == [x EXCEPT !.sign = IF IsNaN(x) THEN 0 ELSE 1 - x.sign]

Xor(s, t) == IF s = t THEN 0 ELSE 1

FMul(x, y) ==
  IF IsNaN(x) \/ IsNaN(y) THEN NaN
  ELSE IF IsInf(x) \/ IsInf(y)
       THEN (IF IsZero(x) \/ IsZero(y) THEN NaN ELSE Inf(Xor(x.sign, y.sign)))
       ELSE Round(Xor(x.sign, y.sign), BMul(x.man, y.man), x.exp + y.exp)

\* The exponent gap beyond which the smaller addend cannot change the sum.
FarGap == Precision + 8

FAdd(x, y) ==
  IF IsNaN(x) \/ IsNaN(y) THEN NaN
  ELSE IF IsInf(x) THEN (IF IsInf(y) /\ y.sign # x.sign THEN NaN ELSE x)
  ELSE IF IsInf(y) THEN y
  ELSE IF IsZero(x) /\ IsZero(y) THEN Zero(IF x.sign = y.sign THEN x.sign ELSE 0)
  ELSE IF IsZero(x) THEN y
  ELSE IF IsZero(y) THEN x
  ELSE IF x.exp - y.exp > FarGap THEN x
  ELSE IF y.exp - x.exp > FarGap THEN y
  ELSE LET e == Min(x.exp, y.exp)
           nx == BShl(x.man, x.exp - e)
           ny == BShl(y.man, y.exp - e)
           cmp == BCmp(nx, ny)
       IN  IF x.sign = y.sign THEN Round(x.sign, BAdd(nx, ny), e)
           ELSE IF cmp = 0 THEN Zero(0)
           ELSE IF cmp = 1 THEN Round(x.sign, BSub(nx, ny), e)
           ELSE Round(y.sign, BSub(ny, nx), e)

FSub(x, y) == FAdd(x, FNeg(y))

\* (p as f64) / (n as f64) for naturals p and n, n below Base.  Both conversions
\* are exact, so the quotient is p / n rounded once: GuardLimbs limbs of quotient
\* and a sticky bit for the remainder decide the rounding.
GuardLimbs == 5

FDivNat(p, n) ==
  IF n = 0 THEN (IF p = 0 THEN NaN ELSE Inf(0))
  ELSE IF p = 0 THEN Zero(0)
  ELSE LET k == GuardLimbs * LimbBits
           qr == BDivLimb(BShl(BFromNat(p), k), n)
           m == BAddC(BShl(qr[1], 1), <<>>, IF qr[2] = 0 THEN 0 ELSE 1)
       IN  Round(0, m, 0 - k - 1)

\* |x| < |y| for finite x, y.
MagLess(x, y) ==
  IF y.man = <<>> THEN FALSE
  ELSE IF x.man = <<>> THEN TRUE
  ELSE IF x.exp # y.exp THEN x.exp < y.exp
  ELSE BCmp(x.man, y.man) < 0

\* x < y as the f64 comparison: false when either is NaN, and -0 = +0.
FLt(x, y) ==
  IF IsNaN(x) \/ IsNaN(y) THEN FALSE
  ELSE IF IsZero(x) /\ IsZero(y) THEN FALSE
  ELSE IF x.sign # y.sign THEN x.sign = 1
  ELSE IF IsInf(x) THEN (x.sign = 1 /\ ~IsInf(y))
  ELSE IF IsInf(y) THEN y.sign = 0
  ELSE IF x.sign = 0 THEN MagLess(x, y) ELSE MagLess(y, x)

FGt(x, y) == FLt(y, x)

\* The f64 ==: false when either is NaN, and -0 = +0.
FEq(x, y) ==
  /\ ~IsNaN(x) /\ ~IsNaN(y)
  /\ \/ x = y
     \/ IsZero(x) /\ IsZero(y)

\* n as f64 (usize as f64), and n / 2^k for an integer n of either sign.
FromNat(n) == Round(0, BFromNat(n), 0)
Dyadic(n, k) == Round(IF n < 0 THEN 1 ELSE 0, BFromNat(IF n < 0 THEN 0 - n ELSE n), 0 - k)

(***************************************************************************)
(* num::complex::Complex<f64> (main.rs line 1) and the arithmetic of       *)
(* `z * z + c`: Mul is (a.re*b.re - a.im*b.im, a.re*b.im + a.im*b.re), Add *)
(* is componentwise, each operation rounded on its own.                    *)
(***************************************************************************)
Complex(re, im) == [re |-> re, im |-> im]

ComplexMul(a, b) ==
  Complex(FSub(FMul(a.re, b.re), FMul(a.im, b.im)),
          FAdd(FMul(a.re, b.im), FMul(a.im, b.re)))

ComplexAdd(a, b) == Complex(FAdd(a.re, b.re), FAdd(a.im, b.im))

(***************************************************************************)
(* num_of_mandelbrot_iters_before_escape                                   *)
(***************************************************************************)
escape_value == FromNat(2)

\* HasEscaped with the square closed the other way: a component of exactly 2 or -2
\* counts as escaped.
HasEscapedNonStrict(z) ==
  \/ ~FLt(z.re, escape_value) /\ ~IsNaN(z.re)
  \/ ~FGt(z.re, FNeg(escape_value)) /\ ~IsNaN(z.re)
  \/ ~FLt(z.im, escape_value) /\ ~IsNaN(z.im)
  \/ ~FGt(z.im, FNeg(escape_value)) /\ ~IsNaN(z.im)

\* HasEscaped with the minus signs of lines 138 and 140 left out.
HasEscapedMissingMinus(z) ==
  \/ FGt(z.re, escape_value)
  \/ FLt(z.re, escape_value)
  \/ FGt(z.im, escape_value)
  \/ FLt(z.im, escape_value)

\* The test of lines 137-140.
HasEscaped(z) ==
  \/ FGt(z.re, escape_value)
  \/ FLt(z.re, FNeg(escape_value))
  \/ FGt(z.im, escape_value)
  \/ FLt(z.im, FNeg(escape_value))

\* Line 146.
MandelbrotStep(z, c) == ComplexAdd(ComplexMul(z, z), c)

\* The function as a whole, from the i-th pass of `for i in 0..=max_iterations`.
RECURSIVE EscapeLoopFrom(_, _, _, _)
EscapeLoopFrom(c, z, i, max_iterations) ==
  IF i > max_iterations THEN max_iterations
  ELSE IF HasEscaped(z) THEN i
  ELSE CHOOSE count \in { EscapeLoopFrom(c, next, i + 1, max_iterations) :
                             next \in {MandelbrotStep(z, c)} } : TRUE

num_of_mandelbrot_iters_before_escape(c, z, max_iterations) ==
  EscapeLoopFrom(c, z, 0, max_iterations)

(***************************************************************************)
(* calculate_mandelbrot: the plane point of a pixel                        *)
(***************************************************************************)
\* PixelPercent sampling the far edge of the pixel.
PixelPercentFarEdge(pixel, size) == FDivNat(pixel + 1, size)

\* Lines 23-24: pixel as f64 / size as f64.
PixelPercent(pixel, size) == FDivNat(pixel, size)

\* AxisPosition without the offset.
AxisPositionNoOffset(percent, axis_min, axis_max) ==
  FMul(percent, FSub(axis_max, axis_min))

\* Lines 45-47 and 50-52: (percent * (axis_max - axis_min)) + axis_min.
AxisPosition(percent, axis_min, axis_max) ==
  LET axis_length == FSub(axis_max, axis_min)
      offset == axis_min
  IN  FAdd(FMul(percent, axis_length), offset)

\* PlanePoint with the pixel transposed.
PlanePointTransposed(px, py, w, h, remin, remax, immin, immax) ==
  Complex(AxisPosition(PixelPercent(py, h), remin, remax),
          AxisPosition(PixelPercent(px, w), immin, immax))

\* Line 55.
PlanePoint(px, py, w, h, remin, remax, immin, immax) ==
  Complex(AxisPosition(PixelPercent(px, w), remin, remax),
          AxisPosition(PixelPercent(py, h), immin, immax))

\* Line 58.
ZStart == Complex(Zero(0), Zero(0))

(***************************************************************************)
(* Vec::with_capacity(n) panics with "capacity overflow" when n elements   *)
(* take more than isize::MAX bytes.  IsizeMax is that of a 32-bit target,  *)
(* the widest the integers of the model checker hold; on a 64-bit target   *)
(* the same test is against 2^63 - 1.  A usize is one word, a Vec<usize>   *)
(* three (pointer, capacity, length).                                      *)
(***************************************************************************)
IsizeMax == 2147483647
WordBytes == 4
VecBytes == 3 * WordBytes

CapacityOverflow(n, elem_bytes) == n > IsizeMax \div elem_bytes

(***************************************************************************)
(* render_mandelbrot: the symbol of a count, as its Unicode scalar value.  *)
(***************************************************************************)
Cedilla == 184
FullStop == 46
Bullet == 8226
AngleQuote == 8250
Hyphen == 45
Ogonek == 731
DotAbove == 729
LeftQuote == 8216
Diaeresis == 168
Space == 32
Exclamation == 33

\* Symbol with the last two arms one count late: 901..=1000 and 1001.
SymbolBlankOneLate(pixel) ==
  IF pixel <= 2 THEN Cedilla
  ELSE IF pixel <= 5 THEN FullStop
  ELSE IF pixel <= 10 THEN Bullet
  ELSE IF pixel <= 30 THEN AngleQuote
  ELSE IF pixel <= 100 THEN Hyphen
  ELSE IF pixel <= 200 THEN Ogonek
  ELSE IF pixel <= 400 THEN DotAbove
  ELSE IF pixel <= 700 THEN Ogonek
  ELSE IF pixel <= 800 THEN LeftQuote
  ELSE IF pixel <= 900 THEN Diaeresis
  ELSE IF pixel <= 1000 THEN Cedilla
  ELSE IF pixel = 1001 THEN Space
  ELSE Exclamation

\* The match of lines 168-185.
Symbol(pixel) ==
  IF pixel <= 2 THEN Cedilla
  ELSE IF pixel <= 5 THEN FullStop
  ELSE IF pixel <= 10 THEN Bullet
  ELSE IF pixel <= 30 THEN AngleQuote
  ELSE IF pixel <= 100 THEN Hyphen
  ELSE IF pixel <= 200 THEN Ogonek
  ELSE IF pixel <= 400 THEN DotAbove
  ELSE IF pixel <= 700 THEN Ogonek
  ELSE IF pixel <= 800 THEN LeftQuote
  ELSE IF pixel <= 900 THEN Diaeresis
  ELSE IF pixel <= 999 THEN Cedilla
  ELSE IF pixel = 1000 THEN Space
  ELSE Exclamation

(***************************************************************************)
(* The program as a state machine.  pc is the place in the code:           *)
(*   "main"          before calculate_mandelbrot is called (line 205)      *)
(*   "row_loop"      at the head of `for pixel_y in 0..height` (line 16)   *)
(*   "pixel_loop"    at the head of `for pixel_x in 0..width` (line 21)    *)
(*   "escape_loop"   at the head of `for i in 0..=max_iterations` (136)    *)
(*   "cell_done"     the call of line 62 has returned into escaped_at       *)
(*   "returned"      calculate_mandelbrot has returned rows (line 69)      *)
(*   "render_rows"   at the head of `for row in mandelbrot_points` (159)   *)
(*   "render_pixels" at the head of `for pixel in row` (line 167)          *)
(*   "done"          main has returned                                     *)
(*   "panicked"      the thread has panicked                               *)
(* Locals out of scope hold the value they are created with.               *)
(***************************************************************************)
VARIABLES
  pc,
  max_iterations, real_min, real_max, imaginary_min, imaginary_max, width, height,
  rows, row, pixel_y, pixel_x,
  c, z, i, escaped_at,
  mandelbrot_points, row_index, pixel_index, line, stdout

args == <<max_iterations, real_min, real_max, imaginary_min, imaginary_max, width, height>>
calc == <<rows, row, pixel_y, pixel_x>>
escape == <<c, z, i, escaped_at>>
render == <<mandelbrot_points, row_index, pixel_index, line, stdout>>
vars == <<pc, args, calc, escape, render>>

\* Line 13: `rows` gets the capacity `width`.
CalcEnter ==
  /\ pc = "main"
  /\ pc' = IF CapacityOverflow(width, VecBytes) THEN "panicked" ELSE "row_loop"
  /\ UNCHANGED <<args, calc, escape, render>>

\* Lines 16-17: the next row begins; `row` gets the capacity `height`.
RowStart ==
  /\ pc = "row_loop"
  /\ pixel_y < height
  /\ pc' = IF CapacityOverflow(height, WordBytes) THEN "panicked" ELSE "pixel_loop"
  /\ row' = <<>>
  /\ pixel_x' = 0
  /\ UNCHANGED <<args, rows, pixel_y, escape, render>>

\* Lines 21-58: the next pixel of the row, its point c, and z at the origin.
PixelStart ==
  /\ pc = "pixel_loop"
  /\ pixel_x < width
  /\ c' = PlanePoint(pixel_x, pixel_y, width, height,
                     real_min, real_max, imaginary_min, imaginary_max)
  /\ z' = ZStart
  /\ i' = 0
  /\ pc' = "escape_loop"
  /\ UNCHANGED <<args, calc, escaped_at, render>>

\* The call of line 62 returns `count` into escaped_at; the callee's z and i are gone.
ReturnCount(count) ==
  /\ escaped_at' = count
  /\ z' = ZStart
  /\ i' = 0
  /\ pc' = "cell_done"
  /\ UNCHANGED <<args, calc, c, render>>

\* ReturnEscaped counting the passes from one.
ReturnEscapedFromOne ==
  /\ pc = "escape_loop"
  /\ i <= max_iterations
  /\ HasEscaped(z)
  /\ ReturnCount(i + 1)

\* ReturnEscaped returning the passes left instead of the passes made.
ReturnEscapedPassesLeft ==
  /\ pc = "escape_loop"
  /\ i <= max_iterations
  /\ HasEscaped(z)
  /\ ReturnCount(max_iterations - i)

\* Lines 136-144: z has escaped at pass i.
ReturnEscaped ==
  /\ pc = "escape_loop"
  /\ i <= max_iterations
  /\ HasEscaped(z)
  /\ ReturnCount(i)

\* Lines 136-146: z has not escaped at pass i.
EscapeUpdate ==
  /\ pc = "escape_loop"
  /\ i <= max_iterations
  /\ ~HasEscaped(z)
  /\ z' = MandelbrotStep(z, c)
  /\ i' = i + 1
  /\ UNCHANGED <<pc, args, calc, c, escaped_at, render>>

\* ReturnCap returning the loop counter, one past the cap.
ReturnCapPastEnd ==
  /\ pc = "escape_loop"
  /\ i > max_iterations
  /\ ReturnCount(i)

\* Line 151: the range 0..=max_iterations is exhausted.
ReturnCap ==
  /\ pc = "escape_loop"
  /\ i > max_iterations
  /\ ReturnCount(max_iterations)

\* Line 65, and the end of the loop body: c and escaped_at go out of scope.
CellPush ==
  /\ pc = "cell_done"
  /\ row' = Append(row, escaped_at)
  /\ pixel_x' = pixel_x + 1
  /\ c' = ZStart
  /\ escaped_at' = 0
  /\ pc' = "pixel_loop"
  /\ UNCHANGED <<args, rows, pixel_y, z, i, render>>

\* Line 67: the row is complete.
RowPush ==
  /\ pc = "pixel_loop"
  /\ pixel_x = width
  /\ rows' = Append(rows, row)
  /\ row' = <<>>
  /\ pixel_x' = 0
  /\ pixel_y' = pixel_y + 1
  /\ pc' = "row_loop"
  /\ UNCHANGED <<args, escape, render>>

\* Line 69 and line 205.
CalcReturn ==
  /\ pc = "row_loop"
  /\ pixel_y = height
  /\ mandelbrot_points' = rows
  /\ pc' = "returned"
  /\ UNCHANGED <<args, calc, escape, row_index, pixel_index, line, stdout>>

\* Line 215.
RenderEnter ==
  /\ pc = "returned"
  /\ pc' = "render_rows"
  /\ UNCHANGED <<args, calc, escape, render>>

\* Lines 159-160.
RenderRowStart ==
  /\ pc = "render_rows"
  /\ row_index < Len(mandelbrot_points)
  /\ row_index' = row_index + 1
  /\ pixel_index' = 0
  /\ line' = <<>>
  /\ pc' = "render_pixels"
  /\ UNCHANGED <<args, calc, escape, mandelbrot_points, stdout>>

\* Lines 167-186.
RenderPixel ==
  /\ pc = "render_pixels"
  /\ pixel_index < Len(mandelbrot_points[row_index])
  /\ pixel_index' = pixel_index + 1
  /\ line' = Append(line, Symbol(mandelbrot_points[row_index][pixel_index + 1]))
  /\ UNCHANGED <<pc, args, calc, escape, mandelbrot_points, row_index, stdout>>

\* Line 188.
RenderPrintln ==
  /\ pc = "render_pixels"
  /\ pixel_index = Len(mandelbrot_points[row_index])
  /\ stdout' = Append(stdout, line)
  /\ line' = <<>>
  /\ pixel_index' = 0
  /\ pc' = "render_rows"
  /\ UNCHANGED <<args, calc, escape, mandelbrot_points, row_index>>

\* Lines 190 and 216.
RenderReturn ==
  /\ pc = "render_rows"
  /\ row_index = Len(mandelbrot_points)
  /\ pc' = "done"
  /\ UNCHANGED <<args, calc, escape, render>>

Next ==
  \/ CalcEnter
  \/ RowStart
  \/ PixelStart
  \/ ReturnEscaped
  \/ EscapeUpdate
  \/ ReturnCap
  \/ CellPush
  \/ RowPush
  \/ CalcReturn
  \/ RenderEnter
  \/ RenderRowStart
  \/ RenderPixel
  \/ RenderPrintln
  \/ RenderReturn

\* The locals before main calls calculate_mandelbrot.
Entry ==
  /\ pc = "main"
  /\ rows = <<>> /\ row = <<>> /\ pixel_y = 0 /\ pixel_x = 0
  /\ c = ZStart /\ z = ZStart /\ i = 0 /\ escaped_at = 0
  /\ mandelbrot_points = <<>> /\ row_index = 0 /\ pixel_index = 0
  /\ line = <<>> /\ stdout = <<>>

(***************************************************************************)
(* Spec: the program on small arguments.                                   *)
(***************************************************************************)
MaxIter == 4
MaxWidth == 3
MaxHeight == 2

\* A width that overflows the capacity of `rows`.
HugeWidth == IsizeMax

\* The largest finite f64.
FMax == Fin(0, BSub(TwoPow(Precision), <<1>>), MaxExp)

\* <<min, max>> of an axis: main's, zero-width ones (one from -0 to +0), one
\* whose last column rounds up to real_max, one whose length overflows.
RealRanges ==
  { <<Dyadic(-2, 0), Dyadic(1, 0)>>,
    <<Dyadic(0, 0), Dyadic(0, 0)>>,
    <<Dyadic(3, 0), Dyadic(3, 0)>>,
    <<Dyadic(-1, 1), Dyadic(3, 1)>>,
    <<Round(0, TwoPow(Precision), 0), Round(0, BAdd(TwoPow(Precision), <<2>>), 0)>>,
    <<FNeg(FMax), FMax>> }

ImagRanges ==
  { <<Dyadic(-1, 0), Dyadic(1, 0)>>,
    <<Dyadic(0, 0), Dyadic(0, 0)>>,
    <<Zero(1), Zero(0)>>,
    <<Dyadic(3, 1), Dyadic(5, 1)>>,
    <<FNeg(FMax), FMax>> }

Init ==
  /\ Entry
  /\ max_iterations \in 0..MaxIter
  /\ \E r \in RealRanges : real_min = r[1] /\ real_max = r[2]
  /\ \E r \in ImagRanges : imaginary_min = r[1] /\ imaginary_max = r[2]
  /\ width \in (0..MaxWidth) \cup {HugeWidth}
  /\ height \in 0..MaxHeight

Spec == Init /\ [][Next]_vars

(***************************************************************************)
(* main's arguments (lines 197-204).                                       *)
(***************************************************************************)
screen_width == 230
screen_height == 66
main_max_iterations == 1000
main_real_min == Dyadic(-2, 0)
main_real_max == Dyadic(1, 0)
main_imaginary_min == Dyadic(-1, 0)
main_imaginary_max == Dyadic(1, 0)

MainArgs ==
  /\ max_iterations = main_max_iterations
  /\ real_min = main_real_min /\ real_max = main_real_max
  /\ imaginary_min = main_imaginary_min /\ imaginary_max = main_imaginary_max
  /\ width = screen_width /\ height = screen_height

(***************************************************************************)
(* SpecCell: single cells of main's grid.  An initial state is the program *)
(* entering the escape loop for one pixel <<pixel_y, pixel_x>> of Probes   *)
(* (the state PixelStart leaves), without the cells pushed before it: the  *)
(* loop body reads none of them.  It runs until the call of line 62        *)
(* returns.                                                                *)
(***************************************************************************)
Probes ==
  { <<0, 0>>, <<0, screen_width - 1>>, <<screen_height - 1, 0>>,
    <<screen_height - 1, screen_width - 1>>,
    <<screen_height \div 2, screen_width \div 2>> }

InitCell ==
  /\ MainArgs
  /\ \E p \in Probes : pixel_y = p[1] /\ pixel_x = p[2]
  /\ pc = "escape_loop"
  /\ c = PlanePoint(pixel_x, pixel_y, width, height,
                    real_min, real_max, imaginary_min, imaginary_max)
  /\ z = ZStart /\ i = 0 /\ escaped_at = 0
  /\ rows = <<>> /\ row = <<>>
  /\ mandelbrot_points = <<>> /\ row_index = 0 /\ pixel_index = 0
  /\ line = <<>> /\ stdout = <<>>

NextCell ==
  \/ ReturnEscaped
  \/ EscapeUpdate
  \/ ReturnCap

SpecCell == InitCell /\ [][NextCell]_vars

(***************************************************************************)
(* SpecRender: the program on one- and two-cell grids whose cells take the *)
(* counts at the edges of every arm of the match in render_mandelbrot: the *)
(* point (0, 0) never escapes and so counts max_iterations, the point      *)
(* (1.5, 0) escapes at the second pass.                                    *)
(***************************************************************************)
RenderCaps ==
  { 0, 2, 3, 5, 6, 10, 11, 30, 31, 100, 101, 200, 201, 400, 401, 700, 701,
    800, 801, 900, 901, 999, 1000, 1001 }

InitRender ==
  /\ Entry
  /\ max_iterations \in RenderCaps
  /\ real_min = Dyadic(0, 0) /\ real_max = Dyadic(3, 0)
  /\ imaginary_min = Dyadic(0, 0) /\ imaginary_max = Dyadic(0, 0)
  /\ width \in 1..2
  /\ height \in 1..2

SpecRender == InitRender /\ [][Next]_vars

(***************************************************************************)
(* The claims.                                                             *)
(***************************************************************************)
Point(re_num, im_num) == Complex(Dyadic(re_num, 0), Dyadic(im_num, 0))

\* C1: the count the escape loop returns, and so every cell of the grid that
\* calculate_mandelbrot builds and returns, lies in 0..max_iterations.
C1_CountWithinCap ==
  /\ pc = "cell_done" => escaped_at \in 0..max_iterations
  /\ \A k \in 1..Len(row) : row[k] \in 0..max_iterations
  /\ \A y \in 1..Len(rows) : \A x \in 1..Len(rows[y]) : rows[y][x] \in 0..max_iterations
  /\ \A y \in 1..Len(mandelbrot_points) : \A x \in 1..Len(mandelbrot_points[y]) :
       mandelbrot_points[y][x] \in 0..max_iterations

\* A returned grid that holds the cap in one cell and a smaller count in another.
C1_Witness ==
  /\ pc = "returned"
  /\ max_iterations >= 2
  /\ \E y \in 1..Len(rows) : \E x1, x2 \in 1..Len(rows[y]) :
       rows[y][x1] = max_iterations /\ rows[y][x2] < max_iterations

\* C2 as claimed: the count of c = (3, 0) is 0 for every cap.
C2_AsClaimed ==
  (pc = "cell_done" /\ c = Point(3, 0)) => escaped_at = 0

\* C2 as amended: the count of c = (3, 0) is 1 for every cap of at least 1 and 0
\* for the cap 0: z = 0 passes the test of pass 0, z = (3, 0) fails that of pass 1.
C2_CountOfThree ==
  (pc = "cell_done" /\ c = Point(3, 0)) =>
     escaped_at = (IF max_iterations = 0 THEN 0 ELSE 1)

C2_Witness ==
  pc = "cell_done" /\ c = Point(3, 0) /\ max_iterations = MaxIter /\ escaped_at = 1

\* C3: the count of c = (0, 0) is the cap, whatever the cap.
C3_OriginCountsCap ==
  (pc = "cell_done" /\ c = Point(0, 0)) => escaped_at = max_iterations

C3_Witness ==
  pc = "cell_done" /\ c = Point(0, 0) /\ max_iterations = MaxIter /\ escaped_at = MaxIter

(***************************************************************************)
(* C8 in its own words: the orbit z_0 = (0, 0),                            *)
(* z_{k+1} = (a^2 - b^2 + c.re, 2ab + c.im) for z_k = (a, b), and the test *)
(* re > 2 or re < -2 or im > 2 or im < -2.                                 *)
(***************************************************************************)
Two == Dyadic(2, 0)
MinusTwo == Dyadic(-2, 0)

RECURSIVE Orbit(_, _)
Orbit(point, k) ==
  IF k = 0 THEN Complex(Zero(0), Zero(0))
  ELSE CHOOSE next \in
         { Complex(FAdd(FSub(FMul(zk.re, zk.re), FMul(zk.im, zk.im)), point.re),
                   FAdd(FMul(FMul(Two, zk.re), zk.im), point.im)) :
           zk \in {Orbit(point, k - 1)} } : TRUE

OutsideSquare(zk) ==
  FGt(zk.re, Two) \/ FLt(zk.re, MinusTwo) \/ FGt(zk.im, Two) \/ FLt(zk.im, MinusTwo)

LeastOutside(point, cap) ==
  LET out == { k \in 0..cap : OutsideSquare(Orbit(point, k)) }
  IN  IF out = {} THEN cap ELSE CHOOSE k \in out : \A j \in out : k <= j

CapSlack == 2

\* C9: the count under the cap max_iterations is the smaller of max_iterations
\* and the count of the same point under any larger cap; so a count below the cap
\* is the pass at which the orbit is first outside the square.
C9_CapConsistent ==
  pc = "cell_done" =>
    /\ \A larger \in max_iterations..(max_iterations + CapSlack) :
         escaped_at = Min(num_of_mandelbrot_iters_before_escape(c, ZStart, larger),
                          max_iterations)
    /\ escaped_at < max_iterations =>
         /\ OutsideSquare(Orbit(c, escaped_at))
         /\ \A k \in 0..(escaped_at - 1) : ~OutsideSquare(Orbit(c, k))

\* A count equal to the cap for a point that a larger cap shows to escape at that
\* very pass.
C9_Witness ==
  /\ pc = "cell_done" /\ max_iterations >= 1
  /\ escaped_at = max_iterations
  /\ num_of_mandelbrot_iters_before_escape(c, ZStart, max_iterations + 1) = max_iterations

(***************************************************************************)
(* Whether an f64 operation on finite operands rounds its result.          *)
(***************************************************************************)
FAddInexact(x, y) ==
  IF ~IsFinite(x) \/ ~IsFinite(y) THEN TRUE
  ELSE IF IsZero(x) \/ IsZero(y) THEN FALSE
  ELSE LET e == Min(x.exp, y.exp)
           nx == BShl(x.man, x.exp - e)
           ny == BShl(y.man, y.exp - e)
       IN  Inexact(IF x.sign = y.sign THEN BAdd(nx, ny)
                   ELSE IF BCmp(nx, ny) >= 0 THEN BSub(nx, ny) ELSE BSub(ny, nx), e)

FMulInexact(x, y) ==
  IF ~IsFinite(x) \/ ~IsFinite(y) THEN TRUE
  ELSE Inexact(BMul(x.man, y.man), x.exp + y.exp)

FDivNatInexact(p, n) ==
  IF n = 0 THEN TRUE
  ELSE IF p = 0 THEN FALSE
  ELSE LET k == GuardLimbs * LimbBits
           qr == BDivLimb(BShl(BFromNat(p), k), n)
       IN  qr[2] # 0 \/ Inexact(qr[1], 0 - k)

\* (pixel / size) * (hi - lo) + lo is computed without any rounding.
AxisExact(pixel, size, lo, hi) ==
  LET percent == FDivNat(pixel, size)
      length == FSub(hi, lo)
  IN  /\ ~FDivNatInexact(pixel, size)
      /\ ~FAddInexact(hi, FNeg(lo))
      /\ ~FMulInexact(percent, length)
      /\ ~FAddInexact(FMul(percent, length), lo)

\* C4 as claimed: calculate_mandelbrot never panics, and the grid it returns has
\* height rows of width cells each.
C4_AsClaimed ==
  /\ pc # "panicked"
  /\ pc = "returned" =>
       /\ Len(rows) = height
       /\ \A y \in 1..Len(rows) : Len(rows[y]) = width

\* The point of C5 for column x and row y, computed in f64 as the claim writes it.
ClaimedPoint(x, y) ==
  Complex(FAdd(FMul(FDivNat(x, width), FSub(real_max, real_min)), real_min),
          FAdd(FMul(FDivNat(y, height), FSub(imaginary_max, imaginary_min)),
               imaginary_min))

InCell == pc \in {"escape_loop", "cell_done"}

CellsAreCountsOfClaimedPoints ==
  pc = "returned" =>
    /\ Len(rows) = height
    /\ \A y \in 0..(height - 1) :
         /\ Len(rows[y + 1]) = width
         /\ \A x \in 0..(width - 1) :
              rows[y + 1][x + 1] =
                num_of_mandelbrot_iters_before_escape(ClaimedPoint(x, y), ZStart,
                                                      max_iterations)

\* C5 as claimed: every cell is the count of its claimed point, row 0 samples
\* imaginary_min, and no cell samples real_max or imaginary_max.
C5_AsClaimed ==
  /\ CellsAreCountsOfClaimedPoints
  /\ InCell =>
       /\ pixel_y = 0 => FEq(c.im, imaginary_min)
       /\ ~FEq(c.re, real_max)
       /\ ~FEq(c.im, imaginary_max)

\* C5 as amended: every cell of the returned grid is the count of its claimed
\* point, rows in increasing y and cells in increasing x; row 0 samples
\* imaginary_min when imaginary_max - imaginary_min is finite; and a cell is
\* strictly below real_max (imaginary_max) when the axis is not zero-width and
\* its position is computed without rounding.
C5_CellsSampleClaimedPoints ==
  /\ CellsAreCountsOfClaimedPoints
  /\ InCell =>
       /\ c = ClaimedPoint(pixel_x, pixel_y)
       /\ (pixel_y = 0 /\ IsFinite(FSub(imaginary_max, imaginary_min)))
            => FEq(c.im, imaginary_min)
       /\ (FLt(real_min, real_max) /\ AxisExact(pixel_x, width, real_min, real_max))
            => FLt(c.re, real_max)
       /\ (FLt(imaginary_min, imaginary_max)
             /\ AxisExact(pixel_y, height, imaginary_min, imaginary_max))
            => FLt(c.im, imaginary_max)

\* The last cell of the last row of a full grid over main's plane, sampled without
\* rounding and below both maxima.
C5_Witness ==
  /\ pc = "cell_done"
  /\ width = MaxWidth - 1 /\ height = MaxHeight
  /\ pixel_x = width - 1 /\ pixel_y = height - 1
  /\ Len(rows) = height - 1 /\ Len(row) = width - 1
  /\ real_min = main_real_min /\ real_max = main_real_max
  /\ imaginary_min = main_imaginary_min /\ imaginary_max = main_imaginary_max
  /\ AxisExact(pixel_x, width, real_min, real_max)
  /\ AxisExact(pixel_y, height, imaginary_min, imaginary_max)
  /\ FLt(c.re, real_max) /\ FLt(c.im, imaginary_max)

FiniteLengths ==
  /\ IsFinite(FSub(real_max, real_min))
  /\ IsFinite(FSub(imaginary_max, imaginary_min))

OneCell == width = 1 /\ height = 1

\* C6 as claimed: a 1 x 1 grid is one cell, the count of (real_min, imaginary_min),
\* and that is the point the cell samples, whatever the plane bounds.
C6_AsClaimed ==
  /\ (OneCell /\ pc = "returned") =>
       rows = << <<num_of_mandelbrot_iters_before_escape(
                     Complex(real_min, imaginary_min), ZStart, max_iterations)>> >>
  /\ (OneCell /\ InCell) => FEq(c.re, real_min) /\ FEq(c.im, imaginary_min)

\* C6 as amended: the same, for plane bounds whose lengths real_max - real_min
\* and imaginary_max - imaginary_min are finite.
C6_OneCellSamplesMinCorner ==
  /\ (OneCell /\ FiniteLengths /\ pc = "returned") =>
       rows = << <<num_of_mandelbrot_iters_before_escape(
                     Complex(real_min, imaginary_min), ZStart, max_iterations)>> >>
  /\ (OneCell /\ FiniteLengths /\ InCell) =>
       FEq(c.re, real_min) /\ FEq(c.im, imaginary_min)

\* The 1 x 1 grid over main's plane: its cell is the count 2 of (-2, -1).
C6_Witness ==
  /\ OneCell /\ pc = "returned"
  /\ real_min = main_real_min /\ real_max = main_real_max
  /\ imaginary_min = main_imaginary_min /\ imaginary_max = main_imaginary_max
  /\ max_iterations = MaxIter
  /\ rows = << <<2>> >>

Centre == <<screen_height \div 2, screen_width \div 2>>
Corner == <<0, 0>>

\* C7: with main's arguments the cell of row 33, column 115 samples (-0.5, 0) and
\* counts 1000, and the cell of row 0, column 0 samples (-2, -1) and counts at
\* most 3.
C7_MainCentreAndCorner ==
  /\ <<pixel_y, pixel_x>> = Centre =>
       /\ c = Complex(Dyadic(-1, 1), Dyadic(0, 0))
       /\ pc = "cell_done" => escaped_at = 1000
  /\ <<pixel_y, pixel_x>> = Corner =>
       /\ c = Point(-2, -1)
       /\ pc = "cell_done" => escaped_at <= 3

\* The centre cell after its 1001 passes, none of which found z escaped.
C7_Witness ==
  /\ <<pixel_y, pixel_x>> = <<33, 115>>
  /\ pc = "cell_done"
  /\ escaped_at = main_max_iterations

BlankCount == 1000

SymbolsFit(symbols, counts) ==
  \A k \in 1..Len(symbols) :
    /\ symbols[k] # Exclamation
    /\ symbols[k] = Space <=> counts[k] = BlankCount

====
